---- MODULE Spec2Model ----
(***************************************************************************)
(* Button classifier of IronOS (source/Core/Drivers/Buttons.cpp):          *)
(* getButtonState and the two blocking helpers waitForButtonPress and      *)
(* waitForButtonPressOrTimeout.                                            *)
(*                                                                         *)
(* The tick counter (TickType_t) is an unsigned integer of TickBits bits;  *)
(* every addition and subtraction on ticks is taken modulo 2^TickBits.     *)
(* One tick of the model is one TICKS_100MS unit.                          *)
(***************************************************************************)
EXTENDS Integers, Naturals, FiniteSets, Sequences, TLC

(* ---------------------------- bounds ----------------------------------- *)
\* width of the tick counter in the model (TickType_t scaled down)
TickBits == 4
\* longest hold (ticks from the press poll) the environment produces
MaxHold == 9
\* largest timeout argument given to waitForButtonPressOrTimeout
MaxTimeout == 2
\* ticks waitForButtonPressOrTimeout is followed for after its entry
MaxWait == 3

(* --------------------------- constants --------------------------------- *)
TICKS_100MS == 1
LONG_PRESS_MIN == TICKS_100MS * 4

TickPeriod == 2 ^ TickBits
TickType == 0 .. (TickPeriod - 1)
Mask == 0 .. 3

BUTTON_NONE == "BUTTON_NONE"
BUTTON_F_SHORT == "BUTTON_F_SHORT"
BUTTON_B_SHORT == "BUTTON_B_SHORT"
BUTTON_F_LONG == "BUTTON_F_LONG"
BUTTON_B_LONG == "BUTTON_B_LONG"
BUTTON_BOTH == "BUTTON_BOTH"
BUTTON_BOTH_LONG == "BUTTON_BOTH_LONG"
ButtonState == {BUTTON_NONE, BUTTON_F_SHORT, BUTTON_B_SHORT, BUTTON_F_LONG,
                BUTTON_B_LONG, BUTTON_BOTH, BUTTON_BOTH_LONG}

VARIABLES
  \* static State state (getButtonState)
  state, wasShortPress, totalState, initialPressTime, stateChangeTime,
  \* global
  lastButtonTime,
  \* xTaskGetTickCount()
  tick,
  \* value returned by the last getButtonState call
  ret,
  \* caller: position in a blocking helper, its local `buttons`, its `timeout`
  pc, buttons, timeout,
  \* history (not read by the program)
  op,         \* kind of the last step
  lastSample, \* button mask sampled by the last poll
  prevSample, \* button mask sampled by the poll before the last one
  epUnion,    \* union of the masks sampled in the current/last episode
  tPress,     \* ticks elapsed since the press poll of the episode
  tChange,    \* ticks elapsed since the last poll that saw the mask change
  tLastHeld,  \* tPress at the most recent poll that sampled a button held
  epEvents,   \* number of non-None results in the episode (capped at 2)
  epSwap,     \* some poll of the episode went from A-only to B-only or back
  tWait,      \* ticks elapsed since the entry of the blocking helper
  tmoArg,     \* the timeout argument of waitForButtonPressOrTimeout
  quiet,      \* no button sampled pressed since the entry, idle at entry
  heldAtEntry,\* the entry poll of the helper sampled a button pressed
  freshEp,    \* the episode of the last poll has a press begun after entry
  sawNone,    \* some poll inside the call has returned BUTTON_NONE
  sincePoll   \* what the helper has done since its last poll

codeVars == <<state, wasShortPress, totalState, initialPressTime,
              stateChangeTime, lastButtonTime, tick, ret>>
callVars == <<pc, buttons, timeout>>
epVars   == <<lastSample, prevSample, epUnion, tPress, tChange, tLastHeld,
              epEvents, epSwap>>
waitVars == <<tWait, tmoArg, quiet, heldAtEntry, freshEp, sawNone, sincePoll>>
vars == <<codeVars, callVars, op, epVars, waitVars>>

(* ------------------------ pure helpers --------------------------------- *)
Max(a, b) == IF a >= b THEN a ELSE b
Min(a, b) == IF a <= b THEN a ELSE b

\* (getButtonA() << 0) | (getButtonB() << 1)
ReadButtons(a, b) == a + 2 * b

\* bitwise or of two button masks
BitOr(x, y) == Max(x % 2, y % 2) + 2 * Max(x \div 2, y \div 2)

\* unsigned subtraction of TickType_t values
\* variant: a comparison that is not wrap-safe
TickDiffNoWrap(a, b) == IF a >= b THEN a - b ELSE 0
TickDiff(a, b) == (a - b + TickPeriod) % TickPeriod

\* unsigned addition of TickType_t / uint32_t values
TickAdd(a, b) == (a + b) % TickPeriod

(* ------------------------ getButtonState ------------------------------- *)
\* variant: the activity tick refreshed by every poll
NewLastButtonTimeAlways(cur, now, lbt) == now
\* if (currentState) lastButtonTime = now;
NewLastButtonTime(cur, now, lbt) == IF cur # 0 THEN now ELSE lbt

\* variant: initialPressTime rewritten on every change of the held mask
NewInitialPressTimeOnChange(cur, st, now, ipt) ==
  IF cur # 0 /\ cur # st THEN now ELSE ipt
\* if (currentState && !state.state) state.initialPressTime = now;
NewInitialPressTime(cur, st, now, ipt) ==
  IF cur # 0 /\ st = 0 THEN now ELSE ipt

\* isShortPress = currentState && (now - state.initialPressTime < LONG_PRESS_MIN)
IsShortPress(cur, now, ipt) ==
  cur # 0 /\ TickDiff(now, ipt) < LONG_PRESS_MIN

\* variant: stateChangeTime written only on a press from idle or a release
NewStateChangeTimeEdges(cur, st, now, sct) ==
  IF cur # st /\ (cur = 0 \/ st = 0) THEN now ELSE sct
\* if (currentState != state.state) state.stateChangeTime = now;
NewStateChangeTime(cur, st, now, sct) == IF cur # st THEN now ELSE sct

\* variant: totalState overwritten instead of or-ed
NewTotalStateAssign(cur, st, total) == IF cur = st THEN total ELSE cur
\* variant: totalState never cleared
NewTotalStateNoClear(cur, st, total) ==
  IF cur = st THEN total ELSE BitOr(total, cur)
\* state.totalState on a change: or-ed while held, cleared on full release
NewTotalState(cur, st, total) ==
  IF cur = st THEN total
  ELSE IF cur # 0 THEN BitOr(total, cur) ELSE 0

\* variant: the two single-button short events exchanged
ShortEventSwapped(total) ==
  IF total = 1 THEN BUTTON_B_SHORT
  ELSE IF total = 2 THEN BUTTON_F_SHORT
  ELSE BUTTON_BOTH
\* the short event chosen from state.totalState
ShortEvent(total) ==
  IF total = 1 THEN BUTTON_F_SHORT
  ELSE IF total = 2 THEN BUTTON_B_SHORT
  ELSE BUTTON_BOTH

\* variant: a short event on every full release
ReleaseEventAlways(wsp, total) == ShortEvent(total)
\* variant: short or not decided by the tick of the release poll
ReleaseEventByReleaseTime(wsp, total) ==
  IF TickDiff(tick, initialPressTime) < LONG_PRESS_MIN
    THEN ShortEvent(total) ELSE BUTTON_NONE
\* retVal of the full release branch
ReleaseEvent(wsp, total) == IF wsp THEN ShortEvent(total) ELSE BUTTON_NONE

\* variant: the two single-button long events exchanged
LongEventSwapped(cur) ==
  IF cur = 1 THEN BUTTON_B_LONG
  ELSE IF cur = 2 THEN BUTTON_F_LONG
  ELSE BUTTON_BOTH_LONG
\* the long event chosen from currentState
LongEvent(cur) ==
  IF cur = 1 THEN BUTTON_F_LONG
  ELSE IF cur = 2 THEN BUTTON_B_LONG
  ELSE BUTTON_BOTH_LONG

\* variant: inverted comparison
LongDueInverted(now, sct) == TickDiff(now, sct) < LONG_PRESS_MIN
\* variant: strict comparison
LongDueStrict(now, sct) == TickDiff(now, sct) > LONG_PRESS_MIN
\* variant: measured from state.initialPressTime
LongDueSinceFirstPress(now, sct) ==
  TickDiff(now, initialPressTime) >= LONG_PRESS_MIN
\* now - state.stateChangeTime >= LONG_PRESS_MIN
LongDue(now, sct) == TickDiff(now, sct) >= LONG_PRESS_MIN

\* return value of the unchanged branch (sct is the stored stateChangeTime)
HeldEvent(cur, now, sct) ==
  IF cur = 0 THEN BUTTON_NONE
  ELSE IF LongDue(now, sct) THEN LongEvent(cur) ELSE BUTTON_NONE

\* return value of getButtonState
ReturnValue(cur, now) ==
  IF cur # state
    THEN IF cur # 0 THEN BUTTON_NONE ELSE ReleaseEvent(wasShortPress, totalState)
    ELSE HeldEvent(cur, now, stateChangeTime)

\* variant: wasShortPress left alone by the full-release branch
NewWasShortPressHeldOnly(cur, now, ipt) ==
  IF cur = 0 THEN wasShortPress ELSE IsShortPress(cur, now, ipt)
\* state.wasShortPress after the call: written on every path but idle
NewWasShortPress(cur, now, ipt) ==
  IF cur = state /\ cur = 0 THEN wasShortPress ELSE IsShortPress(cur, now, ipt)

\* one call of getButtonState that samples the mask cur at the current tick
GetButtonState(cur) ==
  LET now == tick
      ipt == NewInitialPressTime(cur, state, now, initialPressTime)
  IN /\ lastButtonTime' = NewLastButtonTime(cur, now, lastButtonTime)
     /\ initialPressTime' = ipt
     /\ stateChangeTime' = NewStateChangeTime(cur, state, now, stateChangeTime)
     /\ state' = cur
     /\ wasShortPress' = NewWasShortPress(cur, now, ipt)
     /\ totalState' = NewTotalState(cur, state, totalState)
     /\ ret' = ReturnValue(cur, now)
     /\ tick' = tick

(* ------------------------ history of a poll ---------------------------- *)
PollKind(prev, cur) ==
  IF cur = prev THEN (IF cur = 0 THEN "idle" ELSE "hold")
  ELSE IF cur = 0 THEN "release"
  ELSE IF prev = 0 THEN "press" ELSE "change"

PollKinds == {"idle", "hold", "release", "press", "change"}

Observe(cur) ==
  LET kind == PollKind(lastSample, cur)
      hit  == IF ret' # BUTTON_NONE THEN 1 ELSE 0
      tp   == IF kind = "press" THEN 0 ELSE tPress
  IN /\ op' = kind
     /\ lastSample' = cur
     /\ prevSample' = lastSample
     /\ epUnion' = IF kind = "press" THEN cur
                   ELSE IF kind \in {"hold", "change"} THEN BitOr(epUnion, cur)
                   ELSE epUnion
     /\ tPress' = tp
     /\ tChange' = IF kind \in {"press", "change", "release"} THEN 0 ELSE tChange
     /\ tLastHeld' = IF cur # 0 THEN tp ELSE tLastHeld
     /\ epEvents' = IF kind = "press" THEN hit
                    ELSE IF kind = "idle" THEN epEvents
                    ELSE Min(2, epEvents + hit)
     /\ epSwap' = IF kind = "press" THEN FALSE
                  ELSE (epSwap \/ {lastSample, cur} = {1, 2})

\* a poll made by a blocking helper: of the episode history only the two
\* clocks are kept, and only while a button is held
ObserveCall(cur) ==
  LET kind == PollKind(lastSample, cur)
  IN /\ op' = kind
     /\ lastSample' = cur
     /\ prevSample' = lastSample
     /\ tPress' = IF kind \in {"hold", "change"} THEN tPress ELSE 0
     /\ tChange' = IF kind = "hold" THEN tChange ELSE 0
     /\ epUnion' = 0 /\ tLastHeld' = 0 /\ epEvents' = 0
     /\ epSwap' = FALSE

\* positions inside waitForButtonPressOrTimeout
TimedPcs == {"T_poll1", "T_delay1", "T_check1", "T_poll2", "T_delay2",
             "T_check2"}

(* ----------------------------- actions --------------------------------- *)
Init ==
  /\ state = 0 /\ wasShortPress = FALSE /\ totalState = 0
  /\ initialPressTime = 0 /\ stateChangeTime = 0
  /\ lastButtonTime = 0
  /\ tick = 0
  /\ ret = BUTTON_NONE
  /\ pc = "idle" /\ buttons = BUTTON_NONE /\ timeout = 0
  /\ op = "init"
  /\ lastSample = 0 /\ prevSample = 0 /\ epUnion = 0 /\ tPress = 0 /\ tChange = 0
  /\ tLastHeld = 0 /\ epEvents = 0 /\ epSwap = FALSE
  /\ tWait = 0 /\ tmoArg = 0 /\ quiet = FALSE /\ heldAtEntry = FALSE
  /\ freshEp = FALSE /\ sawNone = FALSE /\ sincePoll = "none"

\* the tick interrupt: xTaskGetTickCount() advances by one, modulo 2^TickBits.
\* A hold lasts at most MaxHold ticks (less than the counter period) and a
\* call of waitForButtonPressOrTimeout is followed for MaxWait ticks.
Tick ==
  /\ lastSample # 0 => tPress < MaxHold
  /\ pc \in TimedPcs => tWait < MaxWait
  /\ tick' = TickAdd(tick, 1)
  /\ tPress' = IF lastSample # 0 THEN tPress + 1 ELSE tPress
  /\ tChange' = IF lastSample # 0 THEN tChange + 1 ELSE tChange
  /\ tWait' = IF pc \in TimedPcs THEN tWait + 1 ELSE tWait
  /\ op' = "tick"
  /\ UNCHANGED <<state, wasShortPress, totalState, initialPressTime,
                 stateChangeTime, lastButtonTime, ret, callVars,
                 lastSample, prevSample, epUnion, tLastHeld, epEvents,
                 epSwap,
                 tmoArg, quiet, heldAtEntry, freshEp, sawNone, sincePoll>>

\* the UI task calls getButtonState directly
Poll ==
  /\ pc = "idle"
  /\ \E a \in 0 .. 1, b \in 0 .. 1 :
       /\ GetButtonState(ReadButtons(a, b))
       /\ Observe(ReadButtons(a, b))
  /\ UNCHANGED <<callVars, waitVars>>

Next == Tick \/ Poll

Spec == Init /\ [][Next]_vars

\* a tick counter that stops: it advances until the first poll and returns
\* the same value on every poll
TickUntilPolled ==
  /\ op \in {"init", "tick"}
  /\ Tick

NextFrozen == TickUntilPolled \/ Poll

FrozenSpec == Init /\ [][NextFrozen]_vars

(* ------------------------ blocking helpers ----------------------------- *)
\* some button of cur is not in prev
NewlyDown(prev, cur) == BitOr(prev, cur) # prev

\* buttons = getButtonState() as the first statement of waitForButtonPress
EntryPoll(cur) ==
  /\ GetButtonState(cur)
  /\ ObserveCall(cur)
  /\ buttons' = ret'
  /\ heldAtEntry' = (cur # 0)
  /\ freshEp' = FALSE
  /\ sawNone' = (ret' = BUTTON_NONE)
  /\ sincePoll' = "entered"
  /\ UNCHANGED <<tWait, tmoArg, quiet>>

\* buttons = getButtonState() inside a loop of waitForButtonPress
LoopPoll(cur) ==
  /\ GetButtonState(cur)
  /\ ObserveCall(cur)
  /\ buttons' = ret'
  /\ freshEp' = IF NewlyDown(lastSample, cur) THEN TRUE
                ELSE IF lastSample = 0 THEN FALSE ELSE freshEp
  /\ sawNone' = (sawNone \/ ret' = BUTTON_NONE)
  /\ sincePoll' = "polled"
  /\ UNCHANGED <<tWait, tmoArg, quiet, heldAtEntry>>

\* buttons = getButtonState() as the first statement of
\* waitForButtonPressOrTimeout(t)
TimedEntryPoll(cur, t) ==
  /\ GetButtonState(cur)
  /\ ObserveCall(cur)
  /\ buttons' = ret'
  /\ tWait' = 0
  /\ tmoArg' = t
  /\ quiet' = (cur = 0 /\ lastSample = 0)
  /\ sincePoll' = "entered"
  /\ UNCHANGED <<heldAtEntry, freshEp, sawNone>>

\* buttons = getButtonState() inside a loop of waitForButtonPressOrTimeout
TimedLoopPoll(cur) ==
  /\ GetButtonState(cur)
  /\ ObserveCall(cur)
  /\ buttons' = ret'
  /\ quiet' = (quiet /\ cur = 0)
  /\ sincePoll' = "polled"
  /\ UNCHANGED <<tWait, tmoArg, heldAtEntry, freshEp, sawNone>>

\* a step of a helper that calls neither getButtonState nor changes state
Quiet(name) ==
  /\ op' = name
  /\ sincePoll' = IF name = "T_check" THEN "checked" ELSE "yielded"
  /\ UNCHANGED <<codeVars, buttons, timeout, epVars, tWait, tmoArg, quiet,
                 heldAtEntry, freshEp, sawNone>>

\* xTaskGetTickCount() > timeout
DeadlinePassed(now, deadline) == now > deadline

\* waitForButtonPress: entry and first poll
WFBP_Enter ==
  /\ pc = "idle"
  /\ \E a \in 0 .. 1, b \in 0 .. 1 : EntryPoll(ReadButtons(a, b))
  /\ pc' = IF ret' # BUTTON_NONE THEN "P_poll1" ELSE "P_poll2"
  /\ UNCHANGED timeout

\* first loop: while (buttons) { buttons = getButtonState(); GUIDelay(); }
WFBP_Poll1 ==
  /\ pc = "P_poll1"
  /\ \E a \in 0 .. 1, b \in 0 .. 1 : LoopPoll(ReadButtons(a, b))
  /\ pc' = "P_delay1"
  /\ UNCHANGED timeout

WFBP_Delay1 ==
  /\ pc = "P_delay1"
  /\ Quiet("P_delay")
  /\ pc' = IF buttons # BUTTON_NONE THEN "P_poll1" ELSE "P_poll2"

\* variant: the second loop polls again without calling GUIDelay
WFBP_Poll2NoDelay ==
  /\ pc = "P_poll2"
  /\ \E a \in 0 .. 1, b \in 0 .. 1 : LoopPoll(ReadButtons(a, b))
  /\ pc' = IF ret' = BUTTON_NONE THEN "P_poll2" ELSE "done"
  /\ UNCHANGED timeout

\* second loop: while (!buttons) { buttons = getButtonState(); GUIDelay(); }
WFBP_Poll2 ==
  /\ pc = "P_poll2"
  /\ \E a \in 0 .. 1, b \in 0 .. 1 : LoopPoll(ReadButtons(a, b))
  /\ pc' = "P_delay2"
  /\ UNCHANGED timeout

WFBP_Delay2 ==
  /\ pc = "P_delay2"
  /\ Quiet("P_delay")
  /\ pc' = IF buttons = BUTTON_NONE THEN "P_poll2" ELSE "done"

\* waitForButtonPressOrTimeout(t): timeout += xTaskGetTickCount(), first poll
WFBPT_Enter ==
  /\ pc = "idle"
  /\ \E t \in 0 .. MaxTimeout :
       /\ timeout' = TickAdd(t, tick)
       /\ \E a \in 0 .. 1, b \in 0 .. 1 : TimedEntryPoll(ReadButtons(a, b), t)
  /\ pc' = IF ret' # BUTTON_NONE THEN "T_poll1" ELSE "T_poll2"

WFBPT_Poll1 ==
  /\ pc = "T_poll1"
  /\ \E a \in 0 .. 1, b \in 0 .. 1 : TimedLoopPoll(ReadButtons(a, b))
  /\ pc' = "T_delay1"
  /\ UNCHANGED timeout

WFBPT_Delay1 ==
  /\ pc = "T_delay1"
  /\ Quiet("T_delay")
  /\ pc' = "T_check1"

\* if (xTaskGetTickCount() > timeout) return; then the loop test
WFBPT_Check1 ==
  /\ pc = "T_check1"
  /\ Quiet("T_check")
  /\ pc' = IF DeadlinePassed(tick, timeout) THEN "done"
           ELSE IF buttons # BUTTON_NONE THEN "T_poll1" ELSE "T_poll2"

WFBPT_Poll2 ==
  /\ pc = "T_poll2"
  /\ \E a \in 0 .. 1, b \in 0 .. 1 : TimedLoopPoll(ReadButtons(a, b))
  /\ pc' = "T_delay2"
  /\ UNCHANGED timeout

WFBPT_Delay2 ==
  /\ pc = "T_delay2"
  /\ Quiet("T_delay")
  /\ pc' = "T_check2"

WFBPT_Check2 ==
  /\ pc = "T_check2"
  /\ Quiet("T_check")
  /\ pc' = IF DeadlinePassed(tick, timeout) THEN "done"
           ELSE IF buttons = BUTTON_NONE THEN "T_poll2" ELSE "done"

\* the helper has returned; the caller goes on
Continue ==
  /\ pc = "done"
  /\ pc' = "idle" /\ buttons' = BUTTON_NONE /\ timeout' = 0
  /\ op' = "continue"
  /\ tWait' = 0 /\ tmoArg' = 0 /\ quiet' = FALSE /\ heldAtEntry' = FALSE
  /\ freshEp' = FALSE /\ sawNone' = FALSE /\ sincePoll' = "none"
  /\ UNCHANGED <<codeVars, epVars>>

\* the UI task only calls waitForButtonPress
NextWait ==
  \/ Tick
  \/ WFBP_Enter \/ WFBP_Poll1 \/ WFBP_Delay1 \/ WFBP_Poll2 \/ WFBP_Delay2
  \/ Continue

WaitSpec == Init /\ [][NextWait]_vars

\* the UI task only calls waitForButtonPressOrTimeout
NextTimed ==
  \/ Tick
  \/ WFBPT_Enter \/ WFBPT_Poll1 \/ WFBPT_Delay1 \/ WFBPT_Check1
  \/ WFBPT_Poll2 \/ WFBPT_Delay2 \/ WFBPT_Check2
  \/ Continue

TimedSpec == Init /\ [][NextTimed]_vars

\* the UI task calls either blocking helper
NextHelper ==
  \/ Tick
  \/ WFBP_Enter \/ WFBP_Poll1 \/ WFBP_Delay1 \/ WFBP_Poll2 \/ WFBP_Delay2
  \/ WFBPT_Enter \/ WFBPT_Poll1 \/ WFBPT_Delay1 \/ WFBPT_Check1
  \/ WFBPT_Poll2 \/ WFBPT_Delay2 \/ WFBPT_Check2
  \/ Continue

HelperSpec == Init /\ [][NextHelper]_vars

(* ============================ claims =================================== *)
HeldKinds == {"press", "hold", "change"}

\* C1: a single button X pressed from idle and released (release poll less
\* than LONG_PRESS_MIN ticks after the press poll) yields exactly one event:
\* XShort, returned by the release poll; the press poll and the polls while
\* X is held return BUTTON_NONE.
C1_SingleTap ==
  \A x \in {1, 2} :
    (op \in {"press", "hold", "release"} /\ epUnion = x
       /\ tPress < LONG_PRESS_MIN)
    => IF op = "release"
         THEN /\ ret = (IF x = 1 THEN BUTTON_F_SHORT ELSE BUTTON_B_SHORT)
              /\ epEvents = 1
         ELSE ret = BUTTON_NONE /\ epEvents = 0

C1_Witness ==
  /\ op = "release" /\ epUnion = 1 /\ prevSample = 1
  /\ tLastHeld = 2 /\ tPress = 3
  /\ ret = BUTTON_F_SHORT /\ epEvents = 1

\* C2: while A is the only button held, a poll returns BUTTON_F_LONG exactly
\* when LONG_PRESS_MIN or more ticks have passed since the press poll, and
\* BUTTON_NONE before; the poll that sees A released after such a long poll
\* returns BUTTON_NONE.
C2_LongHold ==
  epUnion = 1 =>
    /\ (op \in {"press", "hold"} /\ tPress < LONG_PRESS_MIN)
         => ret = BUTTON_NONE
    /\ (op = "hold" /\ tPress >= LONG_PRESS_MIN) => ret = BUTTON_F_LONG
    /\ (op = "release" /\ tLastHeld >= LONG_PRESS_MIN) => ret = BUTTON_NONE

C2_Witness ==
  /\ op = "release" /\ epUnion = 1 /\ tLastHeld = LONG_PRESS_MIN
  /\ tPress = LONG_PRESS_MIN + 1 /\ epEvents = 1 /\ ret = BUTTON_NONE

\* C3: an episode in which both buttons were seen and whose last held poll is
\* less than LONG_PRESS_MIN ticks after the press poll yields exactly one
\* event: BUTTON_BOTH, returned by the poll that sees the last button
\* released; every held poll (a partial release included) returns BUTTON_NONE.
C3_BothShort ==
  (op \in (HeldKinds \cup {"release"}) /\ epUnion = 3
     /\ tLastHeld < LONG_PRESS_MIN)
  => IF op = "release"
       THEN ret = BUTTON_BOTH /\ epEvents = 1
       ELSE ret = BUTTON_NONE /\ epEvents = 0

C3_Witness ==
  /\ op = "release" /\ epUnion = 3 /\ prevSample = 2
  /\ tLastHeld = 2 /\ tPress = 3
  /\ ret = BUTTON_BOTH /\ epEvents = 1

\* C4: both buttons held unchanged for LONG_PRESS_MIN ticks or more return
\* BUTTON_BOTH_LONG on every poll; the poll that sees A released while B
\* stays held returns BUTTON_NONE, B held alone returns no long event until
\* LONG_PRESS_MIN ticks after that poll, and BUTTON_B_LONG from then on.
C4_PartialRelease ==
  /\ (op = "hold" /\ lastSample = 3 /\ tChange >= LONG_PRESS_MIN)
       => ret = BUTTON_BOTH_LONG
  /\ (op = "change" /\ prevSample = 3 /\ lastSample = 2) => ret = BUTTON_NONE
  /\ (op = "hold" /\ lastSample = 2 /\ epUnion = 3
        /\ tChange < LONG_PRESS_MIN) => ret = BUTTON_NONE
  /\ (op = "hold" /\ lastSample = 2 /\ epUnion = 3
        /\ tChange >= LONG_PRESS_MIN) => ret = BUTTON_B_LONG

C4_Witness ==
  /\ op = "hold" /\ lastSample = 2 /\ epUnion = 3
  /\ tChange = LONG_PRESS_MIN - 1 /\ tPress >= 2 * LONG_PRESS_MIN
  /\ epEvents >= 1 /\ ret = BUTTON_NONE

\* the event a poll returns when the two threshold tests are made on the
\* true numbers of elapsed ticks (a counter that never wraps)
RefEvent ==
  IF op = "hold"
    THEN IF tChange >= LONG_PRESS_MIN
           THEN (IF lastSample = 1 THEN BUTTON_F_LONG
                 ELSE IF lastSample = 2 THEN BUTTON_B_LONG
                 ELSE BUTTON_BOTH_LONG)
           ELSE BUTTON_NONE
  ELSE IF op = "release"
    THEN IF tLastHeld < LONG_PRESS_MIN
           THEN (IF epUnion = 1 THEN BUTTON_F_SHORT
                 ELSE IF epUnion = 2 THEN BUTTON_B_SHORT
                 ELSE BUTTON_BOTH)
           ELSE BUTTON_NONE
  ELSE BUTTON_NONE

\* C7: in an episode shorter than the counter period every poll returns the
\* event the true tick differences give, whether or not the tick counter
\* wrapped around during the episode.
C7_WrapSafe == op \in PollKinds => ret = RefEvent

C7_Witness ==
  /\ op = "hold" /\ lastSample = 1 /\ tick < initialPressTime
  /\ tick < stateChangeTime /\ ret = BUTTON_F_LONG

\* C9: a poll that samples a button pressed sets lastButtonTime to the tick
\* it sampled; a poll that samples no button leaves lastButtonTime unchanged.
C9_LastButtonTime ==
  [][op' \in PollKinds =>
       IF lastSample' # 0
         THEN lastButtonTime' = tick /\ tick' = tick
         ELSE lastButtonTime' = lastButtonTime]_vars

C9_Witness ==
  /\ op = "release" /\ prevSample # 0
  /\ TickDiff(tick, lastButtonTime) = 2 /\ tPress = 3 /\ tLastHeld = 1

\* C10: totalState is a superset of state, is empty exactly when state is
\* empty, and becomes empty on the poll where state goes from non-empty to
\* empty and on no other step.
C10_TotalState ==
  /\ [](/\ BitOr(totalState, state) = totalState
        /\ (totalState = 0 <=> state = 0))
  /\ [][(totalState # 0 /\ totalState' = 0) <=> (state # 0 /\ state' = 0)]_vars

C10_Witness ==
  /\ op = "release" /\ prevSample = 2 /\ epUnion = 3
  /\ totalState = 0 /\ state = 0

\* C5: waitForButtonPress entered with a button already held returns only
\* after a poll inside the call has returned BUTTON_NONE and a later poll has
\* returned an event of an episode with a press that began after the entry.
C5_NoReturnOnOldPress ==
  (pc = "done" /\ op = "P_delay" /\ heldAtEntry)
  => (sawNone /\ buttons # BUTTON_NONE /\ freshEp)

\* C6: with no button ever pressed, waitForButtonPressOrTimeout has returned
\* at the latest after the first deadline test made more than `timeout` ticks
\* after the entry.
C6_ReturnsByDeadline ==
  (op = "T_check" /\ quiet /\ tWait > tmoArg) => pc = "done"

\* C8: with no button activity, and whether or not entry tick + timeout
\* overflows or the counter wraps during the wait,
\* waitForButtonPressOrTimeout does not return before `timeout` ticks have
\* passed since the entry and has returned after the first deadline test made
\* more than `timeout` ticks after the entry.
C8_DeadlineWrapSafe ==
  (op = "T_check" /\ quiet)
  => /\ (pc = "done" => tWait >= tmoArg)
     /\ (tWait > tmoArg => pc = "done")

ShortEvents == {BUTTON_F_SHORT, BUTTON_B_SHORT, BUTTON_BOTH}
LongEvents == {BUTTON_F_LONG, BUTTON_B_LONG, BUTTON_BOTH_LONG}

\* C11 as claimed: every full-release poll that returns BUTTON_NONE comes
\* after a poll of the same episode that returned an event, so no episode
\* ends without an event.
C11_NoSilentEpisode ==
  (op = "release" /\ ret = BUTTON_NONE) => epEvents >= 1

\* C11 as amended: in an episode in which a single button was sampled (the
\* held combination never changed) a full-release poll that returns
\* BUTTON_NONE comes after a poll of the episode that returned an event.
C11_NoSilentSingleEpisode ==
  (op = "release" /\ epUnion \in {1, 2} /\ ret = BUTTON_NONE)
  => epEvents >= 1

C11_Witness ==
  /\ op = "release" /\ epUnion = 2 /\ ret = BUTTON_NONE
  /\ epEvents = 2 /\ tLastHeld = LONG_PRESS_MIN + 1

\* C12: an episode in which only button X was sampled returns either XShort
\* once, on the release poll, and nothing else, or X's long event on one or
\* more held polls and BUTTON_NONE on the release poll: never both kinds,
\* never none.
C12_ShortXorLong ==
  \A x \in {1, 2} :
    epUnion = x =>
      LET xShort == IF x = 1 THEN BUTTON_F_SHORT ELSE BUTTON_B_SHORT
          xLong  == IF x = 1 THEN BUTTON_F_LONG ELSE BUTTON_B_LONG
      IN /\ op \in {"press", "hold"} => ret \in {BUTTON_NONE, xLong}
         /\ op \in {"press", "hold"} => (epEvents >= 1 <=> tLastHeld >= LONG_PRESS_MIN)
         /\ op = "release" =>
              \/ ret = xShort /\ epEvents = 1 /\ tLastHeld < LONG_PRESS_MIN
              \/ ret = BUTTON_NONE /\ epEvents >= 1
                   /\ tLastHeld >= LONG_PRESS_MIN

C12_Witness ==
  /\ op = "release" /\ epUnion = 2 /\ ret = BUTTON_B_SHORT
  /\ epEvents = 1 /\ tLastHeld = LONG_PRESS_MIN - 1
  /\ tPress = LONG_PRESS_MIN + 2

\* C13: a poll that samples a non-empty mask returns BUTTON_NONE unless the
\* mask equals the latched state.state and now - state.stateChangeTime >=
\* LONG_PRESS_MIN, and then it returns the long event of the sampled mask; so
\* every press poll and every change to another non-empty mask returns
\* BUTTON_NONE.
C13_HeldPollResult ==
  [][(op' \in PollKinds /\ lastSample' # 0) =>
       IF lastSample' = state
            /\ TickDiff(tick, stateChangeTime) >= LONG_PRESS_MIN
         THEN ret' = (IF lastSample' = 1 THEN BUTTON_F_LONG
                      ELSE IF lastSample' = 2 THEN BUTTON_B_LONG
                      ELSE BUTTON_BOTH_LONG)
         ELSE ret' = BUTTON_NONE]_vars

C13_Witness ==
  /\ op = "hold" /\ lastSample = 3 /\ ret = BUTTON_BOTH_LONG
  /\ tChange = LONG_PRESS_MIN /\ tPress = LONG_PRESS_MIN + 2

\* C14: initialPressTime is set to the sampled tick by a poll that samples a
\* non-empty mask while state.state is empty, and is left unchanged by every
\* other step.
C14_InitialPressTime ==
  [][IF op' \in PollKinds /\ lastSample' # 0 /\ state = 0
       THEN initialPressTime' = tick
       ELSE initialPressTime' = initialPressTime]_vars

C14_Witness ==
  /\ op = "change" /\ prevSample = 1 /\ lastSample = 3
  /\ TickDiff(tick, initialPressTime) = 2 /\ stateChangeTime = tick

\* C15: stateChangeTime is set to the sampled tick by every poll whose sample
\* differs from state.state (press, full release, change between non-empty
\* masks) and is left unchanged by every poll whose sample equals it.
C15_StateChangeTime ==
  [][op' \in PollKinds =>
       IF lastSample' # state
         THEN stateChangeTime' = tick
         ELSE stateChangeTime' = stateChangeTime]_vars

C15_Witness ==
  /\ op = "change" /\ prevSample = 3 /\ lastSample = 2
  /\ stateChangeTime = tick /\ TickDiff(tick, initialPressTime) = 3

\* C17: a poll whose sample goes from A-only to B-only (or back) returns
\* BUTTON_NONE, sets stateChangeTime to the sampled tick, leaves
\* initialPressTime unchanged and makes totalState hold both buttons; a full
\* release of such an episode whose last held poll is inside the short window
\* returns BUTTON_BOTH.
C17_DoubleTransition ==
  [][/\ (op' = "change" /\ {lastSample, lastSample'} = {1, 2})
          => /\ ret' = BUTTON_NONE
             /\ stateChangeTime' = tick
             /\ initialPressTime' = initialPressTime
             /\ totalState' = 3
     /\ (op' = "release" /\ epSwap /\ tLastHeld < LONG_PRESS_MIN)
          => ret' = BUTTON_BOTH]_vars

C17_Witness ==
  /\ op = "release" /\ epSwap /\ prevSample = 2 /\ ret = BUTTON_BOTH
  /\ tLastHeld = 2 /\ tPress = 3 /\ epEvents = 1

\* C19: a full-release poll returns a short event exactly when the most
\* recent held poll was less than LONG_PRESS_MIN ticks after the press poll,
\* whatever the tick of the release poll; otherwise it returns BUTTON_NONE.
C19_LatchedShort ==
  op = "release" =>
    /\ ret \in ShortEvents \cup {BUTTON_NONE}
    /\ ret \in ShortEvents <=> tLastHeld < LONG_PRESS_MIN

C19_Witness ==
  /\ op = "release" /\ epUnion = 1 /\ ret = BUTTON_F_SHORT
  /\ tLastHeld = LONG_PRESS_MIN - 1 /\ tPress = LONG_PRESS_MIN

\* C20: whenever state.state is empty, wasShortPress is false and totalState
\* is empty; a poll that samples no button while state.state is empty returns
\* BUTTON_NONE and leaves the five fields of State unchanged.
C20_IdleStable ==
  /\ [](state = 0 => (~wasShortPress /\ totalState = 0))
  /\ [][(op' \in PollKinds /\ lastSample' = 0 /\ state = 0) =>
          /\ ret' = BUTTON_NONE
          /\ UNCHANGED <<state, wasShortPress, totalState, initialPressTime,
                         stateChangeTime>>]_vars

C20_Witness ==
  /\ op = "idle" /\ prevSample = 0 /\ ret = BUTTON_NONE /\ state = 0
  /\ TickDiff(tick, stateChangeTime) = 2
  /\ TickDiff(stateChangeTime, initialPressTime) = 3

\* C18: with a tick counter that returns the same value on every poll no
\* poll returns a long event: every poll that is not a full release returns
\* BUTTON_NONE and every full release returns the short event of the buttons
\* sampled during the episode.
C18_FrozenClock ==
  /\ ret \in ButtonState \ LongEvents
  /\ op \in PollKinds =>
       IF op = "release"
         THEN ret = (IF epUnion = 1 THEN BUTTON_F_SHORT
                     ELSE IF epUnion = 2 THEN BUTTON_B_SHORT
                     ELSE BUTTON_BOTH)
         ELSE ret = BUTTON_NONE

C18_Witness ==
  /\ op = "hold" /\ lastSample = 1 /\ epUnion = 3 /\ ret = BUTTON_NONE
  /\ tick = 5 /\ initialPressTime = 5 /\ stateChangeTime = 5

\* positions of the polls inside the loops of the two helpers
LoopPollPcs == {"P_poll1", "P_poll2", "T_poll1", "T_poll2"}

\* C16 as claimed: before every poll a helper makes after another poll it has
\* called GUIDelay since that poll, and waitForButtonPressOrTimeout has also
\* tested the deadline since that poll.
C16_YieldBetweenPolls ==
  [][(op' \in PollKinds /\ pc \in LoopPollPcs) =>
       IF pc \in TimedPcs
         THEN sincePoll = "checked"
         ELSE sincePoll = "yielded"]_vars

\* C16 as amended: every poll made inside a loop is followed by GUIDelay (and
\* in waitForButtonPressOrTimeout by the deadline test) before the next poll
\* or the return; only the entry poll is followed by the first loop poll with
\* neither in between.
C16_YieldPerIteration ==
  [][/\ (op' \in PollKinds /\ pc \in LoopPollPcs) =>
          IF pc \in TimedPcs
            THEN sincePoll \in {"entered", "checked"}
            ELSE sincePoll \in {"entered", "yielded"}
     /\ (pc' = "done" /\ pc # "done") =>
          IF pc \in TimedPcs
            THEN sincePoll' = "checked"
            ELSE sincePoll' = "yielded"]_vars

C16_Witness ==
  /\ pc = "T_poll2" /\ sincePoll = "checked" /\ op = "T_check"
  /\ tWait = 2 /\ tmoArg = 2 /\ state = 1

====
